---- MODULE Spec2Model ----
(***************************************************************************)
(* RTSPlay (src/src/main.rs): the event merge loop of main, the appsrc      *)
(* ingest point it drives, and the "new-payload-type" callback that the    *)
(* rtpptdemux element runs on the streaming thread.                        *)
(*                                                                         *)
(* The RTSP session (retina) and the GStreamer engine are collaborators:   *)
(* what the feed yields, what the bus posts and which fallible engine call *)
(* fails are inputs, drawn with \E from small sets.  The stream selection  *)
(* of main.rs:73-105 belongs to the session set-up; the loop itself reads  *)
(* session.streams()[rtp.stream_id()] for whatever stream a packet names,  *)
(* so the feed ranges over every entry of the stream table.                *)
(***************************************************************************)
EXTENDS Integers, Sequences, FiniteSets, TLC

\* ------------------------------------------------------------------ bounds

\* RtpPackets the feed yields in one run.
MaxPackets == 3

\* ------------------------------------------------------- program constants

\* pad.set_offset(1000000000)
PadOffset == 1000000000

\* i32::MAX: `as i32` keeps an unsigned value up to it
I32Max == 2147483647

\* ------------------------------------------------------------- input data

\* session.streams(): media, encoding_name (a string, one character per
\* element), rtp_payload_type, clock rate, channels (Option: <<>> or <<n>>).
Streams ==
    << [media |-> "video", encoding_name |-> <<"h", "2", "6", "4">>,
        rtp_payload_type |-> 96, clock_rate |-> 90000, channels |-> <<>>],
       [media |-> "audio", encoding_name |-> <<"x", "y", "z">>,
        rtp_payload_type |-> 97, clock_rate |-> 8000, channels |-> <<2>>],
       [media |-> "video", encoding_name |-> <<"H", "2", "6", "4">>,
        rtp_payload_type |-> 98, clock_rate |-> 90000, channels |-> <<>>] >>

StreamIds == 1 .. Len(Streams)

\* rtp.raw(): the packet's bytes, told apart by one value
RawBytes == {"a", "b"}

\* the errors the feed can yield, and the errors the bus can post
FeedErrors == {"E1", "E2"}

BusCauses == {"X", "Y"}

\* the payload type is the packet's own: the RTP header carries it
Packet(sid, raw) ==
    [stream_id |-> sid, pt |-> Streams[sid].rtp_payload_type, raw |-> raw]

Packets == {Packet(sid, raw) : sid \in StreamIds, raw \in RawBytes}

PayloadTypes == {Streams[sid].rtp_payload_type : sid \in StreamIds}

\* ------------------------------------------------- capability descriptor

\* char::to_uppercase on the letters the stream table uses
UpperChar(c) ==
    CASE c = "h" -> "H"
      [] c = "x" -> "X"
      [] c = "y" -> "Y"
      [] c = "z" -> "Z"
      [] OTHER -> c

\* str::to_uppercase
ToUppercase(s) == [i \in 1 .. Len(s) |-> UpperChar(s[i])]

\* `x as i32` of an unsigned value: the value itself up to i32::MAX, and
\* two's complement above it (x - 2^32, written without the power)
AsI32(x) == IF x <= I32Max THEN x ELSE (x - I32Max) - I32Max - 2

\* BuildCaps without to_uppercase: the encoding name goes out as negotiated
BuildCaps_NoUppercase(stream) ==
    [name |-> "application/x-rtp",
     clock_rate |-> AsI32(stream.clock_rate),
     payload |-> AsI32(stream.rtp_payload_type),
     media |-> stream.media,
     encoding_name |-> stream.encoding_name,
     channels |-> IF stream.channels # <<>>
                  THEN <<AsI32(stream.channels[1])>>
                  ELSE <<>>]

\* gst::Caps::builder("application/x-rtp") ... .build()
BuildCaps(stream) ==
    [name |-> "application/x-rtp",
     clock_rate |-> AsI32(stream.clock_rate),
     payload |-> AsI32(stream.rtp_payload_type),
     media |-> stream.media,
     encoding_name |-> ToUppercase(stream.encoding_name),
     channels |-> IF stream.channels # <<>>
                  THEN <<AsI32(stream.channels[1])>>
                  ELSE <<>>]

\* appsrc.set_caps(Some(&gst::Caps::builder("application/x-rtp").build()))
InitialCaps ==
    [name |-> "application/x-rtp", clock_rate |-> 0, payload |-> 0,
     media |-> "", encoding_name |-> <<>>, channels |-> <<>>]

\* ------------------------------------------------------------ recipe table

H264Launch ==
    "rtph264depay ! h264parse update-timecode=true ! vaapidecodebin ! videoconvert ! autovideosink"

FakeSink == "fakesink"

\* Launch without the `_` arm: every codec gets the H264 chain
Launch_NoDefault(encoding_name) == H264Launch

\* match encoding_name { "H264" => ..., _ => "fakesink" }
Launch(encoding_name) ==
    IF encoding_name = <<"H", "2", "6", "4">> THEN H264Launch ELSE FakeSink

\* The fallible engine calls of the callback, each followed by unwrap().
\* fakesink is one core element that takes any caps: its description
\* parses, its bin has a ghost pad named sink and every link to it is
\* accepted.  The H264 chain names plugin elements that may be absent,
\* refuse the pad's caps or fail to start.
Faults(launch) ==
    IF launch = FakeSink
    THEN {"none"}
    ELSE {"none", "parse", "add", "static_pad", "link", "set_state"}

\* ------------------------------------------------------------------- state

VARIABLES
    pc,             \* main: "select" (in the loop), "teardown", "returned"
    stopped,        \* "Running" or the reason the loop was left
    result,         \* what main returned
    lastEvent,      \* the arm of select! taken by the last iteration
    fed,            \* the RtpPackets the feed has yielded, in order
    calls,          \* the calls made on appsrc, in order
    caps,           \* the caps appsrc holds
    queue,          \* appsrc's queue: pushed and not yet streamed
    notified,       \* the new-payload-type emissions, in order
    bins,           \* the bins the callback has added to the pipeline
    sunk,           \* the buffers rtpptdemux has pushed on its source pads
    graphState,     \* the state of the pipeline
    pipelineAlive,  \* whether pipeline_weak still upgrades
    panicked        \* an unwrap() of the callback has failed

vars ==
    << pc, stopped, result, lastEvent, fed, calls, caps, queue, notified,
       bins, sunk, graphState, pipelineAlive, panicked >>

mainVars == << pc, stopped, result, lastEvent, fed, calls, caps >>

engineVars == << notified, bins, sunk, panicked >>

NoResult == [kind |-> "none", cause |-> ""]

OkResult == [kind |-> "Ok", cause |-> ""]

ErrResult(cause) == [kind |-> "Err", cause |-> cause]

SetCaps(c) == [op |-> "set_caps", arg |-> c, ok |-> TRUE]

PushBuffer(p, ok) == [op |-> "push_buffer", arg |-> p, ok |-> ok]

EndOfStream(ok) == [op |-> "end_of_stream", arg |-> <<>>, ok |-> ok]

\* what one arm of select! yielded: the item, and the error it carried
Event(kind, arg) == [kind |-> kind, arg |-> arg]

\* after pipeline.set_state(Playing), session.play() and bus().stream()
Init ==
    /\ pc = "select"
    /\ stopped = "Running"
    /\ result = NoResult
    /\ lastEvent = Event("none", "")
    /\ fed = <<>>
    /\ calls = <<>>
    /\ caps = InitialCaps
    /\ queue = <<>>
    /\ notified = <<>>
    /\ bins = <<>>
    /\ sunk = <<>>
    /\ graphState = "Playing"
    /\ pipelineAlive = TRUE
    /\ panicked = FALSE

\* an iteration of the loop can run
Selecting == pc = "select" /\ ~panicked

\* `return Err(..)`, `?` and bail!: main returns from inside the loop and
\* its locals, the pipeline among them, are dropped
ReturnErr(reason, cause) ==
    /\ pc' = "returned"
    /\ stopped' = reason
    /\ result' = ErrResult(cause)
    /\ pipelineAlive' = FALSE
    /\ UNCHANGED graphState

\* `break`: on to pipeline.set_state(Null)
Break ==
    /\ pc' = "teardown"
    /\ stopped' = "NormalEndOfStream"
    /\ UNCHANGED << result, pipelineAlive, graphState >>

\* the loop goes round
Continue ==
    UNCHANGED << pc, stopped, result, pipelineAlive, graphState >>

\* ------------------------------------------------- the loop: the feed arm

\* what push_buffer leaves in appsrc's queue; the caps in force travel with it
Queued(c, pkt) == [kind |-> "buffer", caps |-> c, pkt |-> pkt]

\* what end_of_stream leaves in appsrc's queue
QueuedEos(c) == [kind |-> "eos", caps |-> c, pkt |-> <<>>]

\* FeedRtpPacket with the two appsrc calls exchanged: the buffer is pushed
\* under the caps of the packet before it, and the caps are set after
FeedRtpPacket_PushFirst(sid, raw, allocOK, pushOK) ==
    LET pkt == Packet(sid, raw)
        c == BuildCaps(Streams[pkt.stream_id])
    IN  /\ Selecting
        /\ Len(fed) < MaxPackets
        /\ lastEvent' = Event("RtpPacket", "")
        /\ fed' = Append(fed, pkt)
        /\ IF ~allocOK
           THEN /\ ReturnErr("GraphError", "BufferAlloc")
                /\ UNCHANGED << calls, caps, queue >>
           ELSE /\ caps' = c
                /\ calls' = calls \o << PushBuffer(pkt, pushOK), SetCaps(c) >>
                /\ IF pushOK
                   THEN /\ queue' = Append(queue, Queued(caps, pkt))
                        /\ Continue
                   ELSE /\ ReturnErr("GraphError", "FlowError")
                        /\ UNCHANGED queue
        /\ UNCHANGED engineVars

\* FeedRtpPacket with `let _ = appsrc.push_buffer(buffer);`: the result of
\* the push is dropped and the loop goes round
FeedRtpPacket_IgnoresPushError(sid, raw, allocOK, pushOK) ==
    LET pkt == Packet(sid, raw)
        c == BuildCaps(Streams[pkt.stream_id])
    IN  /\ Selecting
        /\ Len(fed) < MaxPackets
        /\ lastEvent' = Event("RtpPacket", "")
        /\ fed' = Append(fed, pkt)
        /\ IF ~allocOK
           THEN /\ ReturnErr("GraphError", "BufferAlloc")
                /\ UNCHANGED << calls, caps, queue >>
           ELSE /\ caps' = c
                /\ calls' = calls \o << SetCaps(c), PushBuffer(pkt, pushOK) >>
                /\ queue' = IF pushOK THEN Append(queue, Queued(c, pkt)) ELSE queue
                /\ Continue
        /\ UNCHANGED engineVars

\* FeedRtpPacket that configures and pushes only when the descriptor differs
\* from the one in force
FeedRtpPacket_SkipsUnchanged(sid, raw, allocOK, pushOK) ==
    LET pkt == Packet(sid, raw)
        c == BuildCaps(Streams[pkt.stream_id])
    IN  /\ Selecting
        /\ Len(fed) < MaxPackets
        /\ lastEvent' = Event("RtpPacket", "")
        /\ fed' = Append(fed, pkt)
        /\ IF ~allocOK
           THEN /\ ReturnErr("GraphError", "BufferAlloc")
                /\ UNCHANGED << calls, caps, queue >>
           ELSE IF caps = c
           THEN /\ Continue
                /\ UNCHANGED << calls, caps, queue >>
           ELSE /\ caps' = c
                /\ calls' = calls \o << SetCaps(c), PushBuffer(pkt, pushOK) >>
                /\ IF pushOK
                   THEN /\ queue' = Append(queue, Queued(c, pkt))
                        /\ Continue
                   ELSE /\ ReturnErr("GraphError", "FlowError")
                        /\ UNCHANGED queue
        /\ UNCHANGED engineVars

\* Some(Ok(PacketItem::RtpPacket(rtp))): Buffer::with_size(..)?, set_caps,
\* push_buffer(buffer)?
FeedRtpPacket(sid, raw, allocOK, pushOK) ==
    LET pkt == Packet(sid, raw)
        c == BuildCaps(Streams[pkt.stream_id])
    IN  /\ Selecting
        /\ Len(fed) < MaxPackets
        /\ lastEvent' = Event("RtpPacket", "")
        /\ fed' = Append(fed, pkt)
        /\ IF ~allocOK
           THEN /\ ReturnErr("GraphError", "BufferAlloc")
                /\ UNCHANGED << calls, caps, queue >>
           ELSE /\ caps' = c
                /\ calls' = calls \o << SetCaps(c), PushBuffer(pkt, pushOK) >>
                /\ IF pushOK
                   THEN /\ queue' = Append(queue, Queued(c, pkt))
                        /\ Continue
                   ELSE /\ ReturnErr("GraphError", "FlowError")
                        /\ UNCHANGED queue
        /\ UNCHANGED engineVars

\* FeedErr that finishes the ingest point before it returns the error
FeedErr_Finishes(err) ==
    /\ Selecting
    /\ lastEvent' = Event("FeedErr", err)
    /\ calls' = Append(calls, EndOfStream(TRUE))
    /\ queue' = Append(queue, QueuedEos(caps))
    /\ ReturnErr("FeedError", err)
    /\ UNCHANGED << fed, caps >>
    /\ UNCHANGED engineVars

\* Some(Err(err)) => return Err(err.into())
FeedErr(err) ==
    /\ Selecting
    /\ lastEvent' = Event("FeedErr", err)
    /\ ReturnErr("FeedError", err)
    /\ UNCHANGED << fed, calls, caps, queue >>
    /\ UNCHANGED engineVars

\* FeedSenderReport that takes the report for the end of the feed
FeedSenderReport_Breaks ==
    /\ Selecting
    /\ lastEvent' = Event("SenderReport", "")
    /\ Break
    /\ UNCHANGED << fed, calls, caps, queue >>
    /\ UNCHANGED engineVars

\* Some(Ok(PacketItem::SenderReport(_sr))) => {}
FeedSenderReport ==
    /\ Selecting
    /\ lastEvent' = Event("SenderReport", "")
    /\ Continue
    /\ UNCHANGED << fed, calls, caps, queue >>
    /\ UNCHANGED engineVars

\* FeedNone without its `break`: the loop goes round after end_of_stream
FeedNone_NoBreak(eosOK) ==
    /\ Selecting
    /\ lastEvent' = Event("None", "")
    /\ calls' = Append(calls, EndOfStream(eosOK))
    /\ IF eosOK
       THEN /\ queue' = Append(queue, QueuedEos(caps))
            /\ Continue
       ELSE /\ ReturnErr("GraphError", "FlowError")
            /\ UNCHANGED queue
    /\ UNCHANGED << fed, caps >>
    /\ UNCHANGED engineVars

\* FeedNone without its end_of_stream: only the `break`
FeedNone_NoFinish(eosOK) ==
    /\ Selecting
    /\ lastEvent' = Event("None", "")
    /\ Break
    /\ UNCHANGED << fed, calls, caps, queue >>
    /\ UNCHANGED engineVars

\* None => { let _ = appsrc.end_of_stream()?; break; }
FeedNone(eosOK) ==
    /\ Selecting
    /\ lastEvent' = Event("None", "")
    /\ calls' = Append(calls, EndOfStream(eosOK))
    /\ IF eosOK
       THEN /\ queue' = Append(queue, QueuedEos(caps))
            /\ Break
       ELSE /\ ReturnErr("GraphError", "FlowError")
            /\ UNCHANGED queue
    /\ UNCHANGED << fed, caps >>
    /\ UNCHANGED engineVars

\* -------------------------------------------------- the loop: the bus arm

\* BusEos that only notes the message: the loop goes round
BusEos_Continues ==
    /\ Selecting
    /\ lastEvent' = Event("Eos", "")
    /\ Continue
    /\ UNCHANGED << fed, calls, caps, queue >>
    /\ UNCHANGED engineVars

\* MessageView::Eos(_) => break
BusEos ==
    /\ Selecting
    /\ lastEvent' = Event("Eos", "")
    /\ Break
    /\ UNCHANGED << fed, calls, caps, queue >>
    /\ UNCHANGED engineVars

\* BusError that bails with a message of its own instead of err.error()
BusError_LosesCause(cause) ==
    /\ Selecting
    /\ lastEvent' = Event("BusError", cause)
    /\ ReturnErr("GraphError", "pipeline error")
    /\ UNCHANGED << fed, calls, caps, queue >>
    /\ UNCHANGED engineVars

\* MessageView::Error(err) => bail!(err.error())
BusError(cause) ==
    /\ Selecting
    /\ lastEvent' = Event("BusError", cause)
    /\ ReturnErr("GraphError", cause)
    /\ UNCHANGED << fed, calls, caps, queue >>
    /\ UNCHANGED engineVars

\* BusOther that leaves the loop on any message it does not know
BusOther_Breaks ==
    /\ Selecting
    /\ lastEvent' = Event("Other", "")
    /\ Break
    /\ UNCHANGED << fed, calls, caps, queue >>
    /\ UNCHANGED engineVars

\* _ => {}
BusOther ==
    /\ Selecting
    /\ lastEvent' = Event("Other", "")
    /\ Continue
    /\ UNCHANGED << fed, calls, caps, queue >>
    /\ UNCHANGED engineVars

\* BusClosed that takes the closed bus for a failure
BusClosed_Bails ==
    /\ Selecting
    /\ lastEvent' = Event("BusClosed", "")
    /\ ReturnErr("GraphError", "bus closed")
    /\ UNCHANGED << fed, calls, caps, queue >>
    /\ UNCHANGED engineVars

\* bus_stream.next() is None: else { break }
BusClosed ==
    /\ Selecting
    /\ lastEvent' = Event("BusClosed", "")
    /\ Break
    /\ UNCHANGED << fed, calls, caps, queue >>
    /\ UNCHANGED engineVars

\* -------------------------------------------------------------- after it

\* every bin of the pipeline follows it to Null
AllNull(bs) == [i \in 1 .. Len(bs) |-> [bs[i] EXCEPT !.state = "Null"]]

\* pipeline.set_state(gst::State::Null)?; Ok(())
Teardown(ok) ==
    /\ pc = "teardown"
    /\ ~panicked
    /\ pc' = "returned"
    /\ pipelineAlive' = FALSE
    /\ IF ok
       THEN /\ graphState' = "Null"
            /\ result' = OkResult
            /\ queue' = <<>>
            /\ bins' = AllNull(bins)
       ELSE /\ result' = ErrResult("StateChangeError")
            /\ UNCHANGED << graphState, queue, bins >>
    /\ UNCHANGED << stopped, lastEvent, fed, calls, caps, notified, sunk,
                    panicked >>

\* ---------------------------------------- the streaming thread: rtpptdemux

\* the payload types rtpptdemux has made a source pad for
SrcPads == {notified[i].pt : i \in 1 .. Len(notified)}

\* the bins built for a payload type
BinsOf(bs, pt) == {i \in 1 .. Len(bs) : bs[i].pt = pt}

\* a bin for pt is linked to the pad and Playing
BranchReady(bs, pt) ==
    \E i \in BinsOf(bs, pt) : bs[i].linked /\ bs[i].state = "Playing"

\* the streaming thread runs while the pipeline has not been set to Null
Streaming == queue # <<>> /\ ~panicked /\ graphState = "Playing"

\* CallbackBins without bin.set_state(Playing): the bin is added and linked
\* and left in the state it was built in
CallbackBins_NoSetState(bs, pt, c, alive, fault) ==
    LET launch == Launch(c.encoding_name)
        bin == [pt |-> pt, launch |-> launch, linked |-> FALSE,
                state |-> "Null"]
    IN  IF ~alive \/ fault \in {"parse", "add"}
        THEN bs
        ELSE IF fault \in {"static_pad", "link"}
        THEN Append(bs, bin)
        ELSE Append(bs, [bin EXCEPT !.linked = TRUE])

\* CallbackBins that builds the branch whether or not pipeline_weak upgrades
CallbackBins_NoUpgradeCheck(bs, pt, c, alive, fault) ==
    LET launch == Launch(c.encoding_name)
        bin == [pt |-> pt, launch |-> launch, linked |-> FALSE,
                state |-> "Null"]
    IN  IF alive /\ fault \in {"parse", "add"}
        THEN bs
        ELSE IF alive /\ fault \in {"static_pad", "link"}
        THEN Append(bs, bin)
        ELSE IF alive /\ fault = "set_state"
        THEN Append(bs, [bin EXCEPT !.linked = TRUE])
        ELSE Append(bs, [bin EXCEPT !.linked = TRUE, !.state = "Playing"])

\* the closure of rtpptdemux.connect("new-payload-type", ..): the bins after
\* it, given which of its fallible calls fails
CallbackBins(bs, pt, c, alive, fault) ==
    LET launch == Launch(c.encoding_name)
        bin == [pt |-> pt, launch |-> launch, linked |-> FALSE,
                state |-> "Null"]
    IN  IF ~alive \/ fault \in {"parse", "add"}
        THEN bs
        ELSE IF fault \in {"static_pad", "link"}
        THEN Append(bs, bin)
        ELSE IF fault = "set_state"
        THEN Append(bs, [bin EXCEPT !.linked = TRUE])
        ELSE Append(bs, [bin EXCEPT !.linked = TRUE, !.state = "Playing"])

\* whether an unwrap() of the closure panics
CallbackPanics(alive, fault) == alive /\ fault # "none"

\* the record of one emission: the pad's offset and caps, whether
\* pipeline_weak.upgrade() gave the pipeline, and the call that failed
Notification(pt, c, alive, fault) ==
    [pt |-> pt, caps |-> c, offset |-> PadOffset, upgraded |-> alive,
     fault |-> IF alive THEN fault ELSE "none"]

\* a buffer as it leaves a source pad of rtpptdemux
Sunk(bs, pkt) ==
    [pt |-> pkt.pt, raw |-> pkt.raw, ready |-> BranchReady(bs, pkt.pt)]

\* NewPayloadType with the closure connected to "payload-type-change", which
\* rtpptdemux emits whenever a buffer's payload type differs from the one
\* before it
NewPayloadType_OnChange(fault) ==
    LET head == Head(queue)
        pt == head.pkt.pt
    IN  /\ Streaming
        /\ head.kind = "buffer"
        /\ IF sunk = <<>> THEN TRUE ELSE sunk[Len(sunk)].pt # pt
        /\ fault \in Faults(Launch(head.caps.encoding_name))
        /\ queue' = Tail(queue)
        /\ notified' = Append(notified, Notification(pt, head.caps, pipelineAlive, fault))
        /\ bins' = CallbackBins(bins, pt, head.caps, pipelineAlive, fault)
        /\ panicked' = CallbackPanics(pipelineAlive, fault)
        /\ sunk' = IF panicked' THEN sunk ELSE Append(sunk, Sunk(bins', head.pkt))
        /\ UNCHANGED mainVars
        /\ UNCHANGED << graphState, pipelineAlive >>

\* a buffer of a payload type seen for the first time: the pad is made, the
\* signal is emitted and the closure runs, then the buffer goes out
NewPayloadType(fault) ==
    LET head == Head(queue)
        pt == head.pkt.pt
    IN  /\ Streaming
        /\ head.kind = "buffer"
        /\ pt \notin SrcPads
        /\ fault \in Faults(Launch(head.caps.encoding_name))
        /\ queue' = Tail(queue)
        /\ notified' = Append(notified, Notification(pt, head.caps, pipelineAlive, fault))
        /\ bins' = CallbackBins(bins, pt, head.caps, pipelineAlive, fault)
        /\ panicked' = CallbackPanics(pipelineAlive, fault)
        /\ sunk' = IF panicked' THEN sunk ELSE Append(sunk, Sunk(bins', head.pkt))
        /\ UNCHANGED mainVars
        /\ UNCHANGED << graphState, pipelineAlive >>

\* a buffer of a payload type that has its pad
StreamKnownPt ==
    LET head == Head(queue)
    IN  /\ Streaming
        /\ head.kind = "buffer"
        /\ head.pkt.pt \in SrcPads
        /\ queue' = Tail(queue)
        /\ sunk' = Append(sunk, Sunk(bins, head.pkt))
        /\ UNCHANGED mainVars
        /\ UNCHANGED << notified, bins, panicked, graphState, pipelineAlive >>

\* the end-of-stream event leaves appsrc
StreamEos ==
    /\ Streaming
    /\ Head(queue).kind = "eos"
    /\ queue' = Tail(queue)
    /\ UNCHANGED mainVars
    /\ UNCHANGED << notified, bins, sunk, panicked, graphState, pipelineAlive >>

\* ----------------------------------------------------------- specification

Next ==
    \/ \E sid \in StreamIds, raw \in RawBytes, allocOK \in BOOLEAN, pushOK \in BOOLEAN :
          FeedRtpPacket(sid, raw, allocOK, pushOK)
    \/ \E err \in FeedErrors : FeedErr(err)
    \/ FeedSenderReport
    \/ \E eosOK \in BOOLEAN : FeedNone(eosOK)
    \/ BusEos
    \/ \E cause \in BusCauses : BusError(cause)
    \/ BusOther
    \/ BusClosed
    \/ \E ok \in BOOLEAN : Teardown(ok)
    \/ \E fault \in {"none", "parse", "add", "static_pad", "link", "set_state"} :
          NewPayloadType(fault)
    \/ StreamKnownPt
    \/ StreamEos

Spec == Init /\ [][Next]_vars

\* the feed's last item: None or an error
FeedTerminal ==
    \/ \E eosOK \in BOOLEAN : FeedNone(eosOK)
    \/ \E err \in FeedErrors : FeedErr(err)

\* A finite feed under select!, which polls both sources on every
\* iteration and takes a ready one: while the loop runs, the feed's last
\* item is taken in the end.
FairSpec == Spec /\ WF_vars(FeedTerminal)

\* ------------------------------------------------------------ the claims

\* the positions of the calls of one kind in the call record
CallsOf(op) == {i \in 1 .. Len(calls) : calls[i].op = op}

Pushes == CallsOf("push_buffer")

Finishes == CallsOf("end_of_stream")

H264Name == <<"H", "2", "6", "4">>

\* the events of the two sources that end the loop without an error
EndEvents == {"None", "Eos", "BusClosed"}

\* C1: no push_buffer is made after end_of_stream has been called, and
\* end_of_stream is called at most once, whatever the interleaving of feed
\* items and bus messages.
C1_NoPushAfterFinish ==
    /\ \A i \in Finishes : \A j \in Pushes : j < i
    /\ Cardinality(Finishes) <= 1

\* C1 witness: packets were pushed, then the feed ended and finish was called
C1_Witness ==
    /\ Cardinality(Pushes) >= 2
    /\ Cardinality(Finishes) = 1
    /\ pc = "returned"

\* C2: on every exit path from the loop the pipeline has been set to Null
\* by the time main returns.
C2_StoppedOnEveryExit == pc = "returned" => graphState = "Null"

\* C3 as stated: the loop ends in NormalEndOfStream if and only if the feed
\* yielded End or the bus yielded EndOfStream or closed.
C3_NormalIffEndEvent ==
    stopped # "Running" =>
        (stopped = "NormalEndOfStream" <=> lastEvent.kind \in EndEvents)

\* C3 amended: the loop ends in NormalEndOfStream if and only if the feed
\* yielded End and the finish() made for it succeeded, or the bus yielded
\* EndOfStream or closed; main returns Ok only after such a stop; and no run
\* makes two finish() calls.
C3_NormalIffEndEventAndFinishOk ==
    /\ stopped # "Running" =>
          (stopped = "NormalEndOfStream" <=>
              \/ lastEvent.kind \in {"Eos", "BusClosed"}
              \/ /\ lastEvent.kind = "None"
                 /\ calls # <<>>
                 /\ calls[Len(calls)] = EndOfStream(TRUE))
    /\ stopped = "Running" => lastEvent.kind \notin EndEvents
    /\ result.kind = "Ok" => stopped = "NormalEndOfStream"
    /\ Cardinality(Finishes) <= 1

\* C3 witness: the bus closed after a packet, and main returned Ok
C3_Witness ==
    /\ lastEvent.kind = "BusClosed"
    /\ fed # <<>>
    /\ result.kind = "Ok"

\* C4 as stated: every NormalEndOfStream stop, by feed End, bus EndOfStream
\* or bus closure, has exactly one finish() call, and none is made while the
\* loop is Running.
C4_ExactlyOneFinish ==
    /\ stopped = "NormalEndOfStream" => Cardinality(Finishes) = 1
    /\ stopped = "Running" => Cardinality(Finishes) = 0

\* C4 amended: no finish() is made while the loop is Running and none is
\* made twice; a NormalEndOfStream stop caused by feed End has exactly one
\* finish() call, made as the loop stops, and one caused by bus EndOfStream
\* or bus closure has none.
C4_OneFinishOnFeedEndOnly ==
    /\ stopped = "Running" => Cardinality(Finishes) = 0
    /\ Cardinality(Finishes) <= 1
    /\ stopped = "NormalEndOfStream" /\ lastEvent.kind = "None" =>
          /\ Cardinality(Finishes) = 1
          /\ calls[Len(calls)].op = "end_of_stream"
    /\ stopped = "NormalEndOfStream" /\ lastEvent.kind \in {"Eos", "BusClosed"} =>
          Cardinality(Finishes) = 0

\* C4 witness: the feed ended after a packet and the pipeline is stopped
C4_Witness ==
    /\ lastEvent.kind = "None"
    /\ stopped = "NormalEndOfStream"
    /\ Cardinality(Pushes) >= 1
    /\ graphState = "Null"

\* C5: when the loop processes Error{cause} from the bus it stops with
\* GraphError, main returns that cause, finish() is never called in the run
\* and no call is made on the ingest point afterwards.
C5_BusErrorStops ==
    /\ [](lastEvent.kind = "BusError" =>
            /\ stopped = "GraphError"
            /\ pc = "returned"
            /\ result = ErrResult(lastEvent.arg)
            /\ Finishes = {})
    /\ [][lastEvent.kind = "BusError" => calls' = calls]_vars

\* C5 witness: the bus posted Error{"X"} after a packet had been pushed
C5_Witness ==
    /\ lastEvent = Event("BusError", "X")
    /\ Cardinality(Pushes) >= 1

\* C6: when the feed yields an error the loop stops with FeedError, main
\* returns that error, finish() is not called, and the pushes made are the
\* packets the feed yielded before the error, one each.
C6_FeedErrorStops ==
    lastEvent.kind = "FeedErr" =>
        /\ stopped = "FeedError"
        /\ pc = "returned"
        /\ result = ErrResult(lastEvent.arg)
        /\ Finishes = {}
        /\ Cardinality(Pushes) = Len(fed)
        /\ \A i \in Pushes : calls[i].ok

\* C6 witness: one packet, then the error E2 (scenario D)
C6_Witness ==
    /\ lastEvent = Event("FeedErr", "E2")
    /\ Len(fed) = 1
    /\ Cardinality(Pushes) = 1

\* the descriptor c describes the sub-stream a packet belongs to
Describes(c, pkt) ==
    /\ c.payload = pkt.pt
    /\ c.payload = Streams[pkt.stream_id].rtp_payload_type
    /\ c.clock_rate = Streams[pkt.stream_id].clock_rate
    /\ c.media = Streams[pkt.stream_id].media
    /\ Len(c.encoding_name) = Len(Streams[pkt.stream_id].encoding_name)
    /\ c.channels = Streams[pkt.stream_id].channels

\* C7: every push is preceded, with no call between, by the configure of
\* the pushed packet's own descriptor, for the first packet and for every
\* change of descriptor; and each queued buffer carries that descriptor.
C7_ConfigureBeforePush ==
    /\ \A j \in Pushes :
          /\ j > 1
          /\ calls[j - 1].op = "set_caps"
          /\ Describes(calls[j - 1].arg, calls[j].arg)
    /\ \A k \in 1 .. Len(queue) :
          queue[k].kind = "buffer" => Describes(queue[k].caps, queue[k].pkt)
    /\ Pushes # {} /\ stopped = "Running" => Describes(caps, fed[Len(fed)])

\* C7 witness: two pushes in a row whose descriptors differ
C7_Witness ==
    \E j \in Pushes :
        /\ j + 2 \in Pushes
        /\ calls[j].arg.pt # calls[j + 2].arg.pt

\* the buffers of one payload type that have left rtpptdemux
SunkOf(pt) == {i \in 1 .. Len(sunk) : sunk[i].pt = pt}

\* the emissions of new-payload-type for one payload type
NotifiedOf(pt) == {i \in 1 .. Len(notified) : notified[i].pt = pt}

C9_UnknownCodecDiscards ==
    /\ \A i \in 1 .. Len(notified) :
          notified[i].caps.encoding_name # H264Name =>
              /\ notified[i].fault = "none"
              /\ notified[i].upgraded =>
                    \E b \in BinsOf(bins, notified[i].pt) :
                        /\ bins[b].launch = "fakesink"
                        /\ bins[b].linked
                        /\ bins[b].state = IF graphState = "Null" THEN "Null" ELSE "Playing"
              /\ \E k \in SunkOf(notified[i].pt) : sunk[k].ready = notified[i].upgraded
    /\ panicked => notified[Len(notified)].caps.encoding_name = H264Name
    /\ \A b \in 1 .. Len(bins) :
          bins[b].launch = "fakesink" <=>
              \E i \in NotifiedOf(bins[b].pt) : notified[i].caps.encoding_name # H264Name
    /\ (/\ fed = << Packet(2, "a") >>
        /\ lastEvent.kind = "None"
        /\ calls[Len(calls)] = EndOfStream(TRUE)
        /\ Len(notified) = 1
        /\ notified[1].upgraded)
          => /\ Cardinality(Pushes) = 1
             /\ Len(bins) = 1
             /\ bins[1].launch = "fakesink"
             /\ Len(sunk) = 1
             /\ ~panicked
             /\ stopped = "NormalEndOfStream"
             /\ result \in {NoResult, OkResult, ErrResult("StateChangeError")}

\* C9 witness: scenario B, one "XYZ" packet then End, streamed and returned
C9_Witness ==
    /\ fed = << Packet(2, "a") >>
    /\ lastEvent.kind = "None"
    /\ Len(sunk) = 1
    /\ bins # <<>>
    /\ bins[1].launch = "fakesink"
    /\ result.kind = "Ok"

\* C10: a recipe construction failure (the description cannot be parsed into
\* a bin) leaves a discard branch installed for its payload-type id and the
\* rest running: the callback does not panic.
C10_ConstructionFailureContained ==
    \A i \in 1 .. Len(notified) :
        notified[i].fault = "parse" =>
            /\ ~panicked
            /\ \E b \in BinsOf(bins, notified[i].pt) : bins[b].launch = "fakesink"

\* the failures of attaching a branch: pipeline.add, static_pad, pad.link
LinkFaults == {"add", "static_pad", "link"}

\* C11: a port-linking failure while a branch is attached (adding it to the
\* graph, getting its sink port, linking the notified port) is reported on
\* the status bus and the loop stops with GraphError: the callback does not
\* panic on it, and the loop is not left Running for ever.
C11_LinkFailureReported ==
    \A i \in 1 .. Len(notified) :
        notified[i].fault \in LinkFaults => ~panicked

\* a step of the loop that took the event `kind`
Took(kind) == lastEvent'.kind = kind /\ lastEvent' # lastEvent

\* C12: a SenderReport yielded by the feed is discarded: the step that takes
\* it makes no call on the ingest point, builds no branch and leaves the
\* loop Running.
C12_SenderReportDiscarded ==
    /\ [](lastEvent.kind = "SenderReport" => pc = "select" /\ stopped = "Running")
    /\ [][Took("SenderReport") =>
            /\ UNCHANGED << calls, caps, queue, fed, notified, bins, sunk >>
            /\ UNCHANGED << pc, stopped, result, graphState, pipelineAlive >>]_vars

\* C12 witness: a report was taken after a packet had been pushed
C12_Witness ==
    /\ lastEvent.kind = "SenderReport"
    /\ Cardinality(Pushes) >= 1
    /\ bins # <<>>

\* C13: inside one notification the branch is added, then linked, then set
\* running, before the notification returns: a bin that runs is linked, a
\* notification that returned left its bin linked and running, and every
\* buffer that left rtpptdemux for an id with a branch found the branch
\* linked and running.
C13_BranchReadyBeforeData ==
    /\ \A b \in 1 .. Len(bins) :
          /\ bins[b].state = "Playing" => bins[b].linked
          /\ ~panicked =>
                /\ bins[b].linked
                /\ bins[b].state = IF graphState = "Null" THEN "Null" ELSE "Playing"
    /\ \A k \in 1 .. Len(sunk) :
          /\ BinsOf(bins, sunk[k].pt) # {} => sunk[k].ready
          /\ sunk[k].ready <=>
                \E i \in NotifiedOf(sunk[k].pt) : notified[i].upgraded
    /\ \A b \in 1 .. Len(bins) :
          \A k \in SunkOf(bins[b].pt) : sunk[k].ready

\* C13 witness: two buffers of one id reached its linked, running branch
C13_Witness ==
    \E b \in 1 .. Len(bins) :
        /\ bins[b].linked
        /\ bins[b].state = "Playing"
        /\ Cardinality(SunkOf(bins[b].pt)) >= 2
        /\ \A k \in SunkOf(bins[b].pt) : sunk[k].ready

\* the codec name is H264 whatever the case of its letter
IsH264IgnoringCase(name) ==
    /\ Len(name) = 4
    /\ name[1] \in {"h", "H"}
    /\ name[2] = "2"
    /\ name[3] = "6"
    /\ name[4] = "4"

\* the streams that carry a payload type
StreamsOf(pt) == {sid \in StreamIds : Streams[sid].rtp_payload_type = pt}

\* C14: recipe selection ignores the case of the codec name: the branch of
\* a payload-type id whose stream's codec name is "H264" in any case is
\* built from the H264 recipe, not the discard one, the descriptor's name
\* having been uppercased; and no other id gets the H264 recipe.
C14_RecipeCaseInsensitive ==
    /\ \A b \in 1 .. Len(bins) :
          bins[b].launch = H264Launch <=>
              \E sid \in StreamsOf(bins[b].pt) :
                  IsH264IgnoringCase(Streams[sid].encoding_name)
    /\ \A i \in 1 .. Len(notified) :
          (\E sid \in StreamsOf(notified[i].pt) :
              IsH264IgnoringCase(Streams[sid].encoding_name))
              => notified[i].caps.encoding_name = H264Name

\* C14 witness: "h264" and "H264" streams both have their H264 branch
C14_Witness ==
    /\ \E b \in BinsOf(bins, 96) : bins[b].launch = H264Launch
    /\ \E b \in BinsOf(bins, 98) : bins[b].launch = H264Launch
    /\ ~panicked

\* the pushes that failed
FailedPushes == {i \in Pushes : ~calls[i].ok}

\* the buffer of the last packet could not be allocated
AllocFailed == result = ErrResult("BufferAlloc") /\ stopped = "GraphError"

\* C15: a failure of configure or push while a packet is handled, the
\* failure to allocate its buffer included, stops the loop at once with an
\* error returned to the caller: the failed call is the last one made, no
\* feed item or bus message is taken after it and finish() is not called.
C15_SinkFailureFatal ==
    /\ [](FailedPushes # {} =>
            /\ FailedPushes = {Len(calls)}
            /\ calls[Len(calls)].arg = fed[Len(fed)]
            /\ stopped = "GraphError"
            /\ pc = "returned"
            /\ result = ErrResult("FlowError")
            /\ lastEvent.kind = "RtpPacket"
            /\ Finishes = {})
    /\ [](AllocFailed =>
            /\ pc = "returned"
            /\ lastEvent.kind = "RtpPacket"
            /\ Cardinality(Pushes) = Len(fed) - 1
            /\ Finishes = {})
    /\ [](stopped = "Running" => FailedPushes = {} /\ result = NoResult)
    /\ [][FailedPushes # {} \/ AllocFailed => UNCHANGED mainVars]_vars

\* C15 witness: the second packet's push failed
C15_Witness ==
    /\ FailedPushes # {}
    /\ Cardinality(Pushes) = 2
    /\ queue # <<>>

\* C16: once the loop has taken EndOfStream or the closure of the bus it
\* stops with NormalEndOfStream and makes no further configure or push and
\* takes no further feed item, though the feed has packets ready.
C16_GraphShutdownFirst ==
    /\ [](lastEvent.kind \in {"Eos", "BusClosed"} =>
            /\ pc # "select"
            /\ stopped = "NormalEndOfStream"
            /\ Finishes = {})
    /\ [][lastEvent.kind \in {"Eos", "BusClosed"} =>
            UNCHANGED << calls, caps, fed, stopped, lastEvent >>]_vars
    /\ [][Took("Eos") \/ Took("BusClosed") =>
            UNCHANGED << calls, caps, fed, queue >>]_vars

\* C16 witness: EndOfStream was taken after one packet, the feed having more
C16_Witness ==
    /\ lastEvent.kind = "Eos"
    /\ Len(fed) = 1
    /\ Len(fed) < MaxPackets
    /\ Cardinality(Pushes) = 1

\* C17: a bus message that is neither EndOfStream nor Error is ignored: the
\* step that takes it makes no call on the ingest point and leaves the loop
\* Running, so what is pushed and how the loop ends do not depend on it.
C17_OtherIgnored ==
    /\ [](lastEvent.kind = "Other" => pc = "select" /\ stopped = "Running")
    /\ [][Took("Other") =>
            /\ UNCHANGED << calls, caps, queue, fed, notified, bins, sunk >>
            /\ UNCHANGED << pc, stopped, result, graphState, pipelineAlive >>]_vars

\* C17 witness: an Other message was taken between packets
C17_Witness ==
    /\ lastEvent.kind = "Other"
    /\ Cardinality(Pushes) >= 1
    /\ Len(fed) < MaxPackets

\* the events that stop the loop: the end or an error of the feed, a
\* packet whose buffer or push failed, and the bus's three terminal events
StopEvents == {"None", "FeedErr", "RtpPacket", "Eos", "BusError", "BusClosed"}

\* C18: with a finite feed and fair selection between the two sources the
\* loop reaches a Stopped state in the end, whatever Other messages the bus
\* produces; and it stops on no other event than a terminal one.
C18_FiniteFeedStops ==
    /\ <>(stopped # "Running")
    /\ [](stopped # "Running" => lastEvent.kind \in StopEvents)

\* the calls of one kind, in order: the packets pushed
RECURSIVE PushedUpTo(_)
PushedUpTo(n) ==
    IF n = 0 THEN <<>>
    ELSE IF calls[n].op = "push_buffer"
         THEN Append(PushedUpTo(n - 1), calls[n].arg)
         ELSE PushedUpTo(n - 1)

Pushed == PushedUpTo(Len(calls))

\* the packets that have left rtpptdemux, in order
SunkRaw == [k \in 1 .. Len(sunk) |-> [pt |-> sunk[k].pt, raw |-> sunk[k].raw]]

PushedRaw == [k \in 1 .. Len(Pushed) |-> [pt |-> Pushed[k].pt, raw |-> Pushed[k].raw]]

IsPrefix(s, t) == Len(s) <= Len(t) /\ \A k \in 1 .. Len(s) : s[k] = t[k]

\* C19 as stated: at every point the pushed buffers are the packets taken
\* from the feed, in order, each once; and once the feed has yielded End
\* after n packets the calls are n pushes, then one finish(), and the loop
\* has stopped with NormalEndOfStream.
C19_PushedIsFed ==
    /\ Pushed = fed
    /\ lastEvent.kind = "None" =>
          /\ Len(Pushed) = Len(fed)
          /\ Finishes = {Len(calls)}
          /\ stopped = "NormalEndOfStream"

\* C19 amended: the pushed buffers are the packets taken from the feed, in
\* order, each once, but for a last packet whose buffer could not be
\* allocated, which is taken and never pushed as the loop stops on it; they
\* leave the ingest point in that order; and once the feed has yielded End
\* after n packets the calls are n successful pushes then one finish(), the
\* loop having stopped with NormalEndOfStream if that finish() succeeded
\* and with an error if it failed.
C19_PushedIsFedUnlessAllocFailed ==
    /\ Pushed = IF AllocFailed THEN SubSeq(fed, 1, Len(fed) - 1) ELSE fed
    /\ stopped = "Running" => Pushed = fed /\ FailedPushes = {}
    /\ IsPrefix(SunkRaw, PushedRaw)
    /\ lastEvent.kind = "None" =>
          /\ Pushed = fed
          /\ FailedPushes = {}
          /\ Finishes = {Len(calls)}
          /\ Len(calls) = 2 * Len(fed) + 1
          /\ stopped = IF calls[Len(calls)].ok THEN "NormalEndOfStream" ELSE "GraphError"

\* C19 witness: scenario A, three packets of id 96 then End, all streamed
C19_Witness ==
    /\ Len(fed) = 3
    /\ \A k \in 1 .. Len(fed) : fed[k].pt = 96
    /\ lastEvent.kind = "None"
    /\ stopped = "NormalEndOfStream"
    /\ Len(sunk) = 3
    /\ Len(bins) = 1
    /\ bins[1].launch = H264Launch

\* C20: a notification that finds the pipeline released builds no branch,
\* links nothing and does not fail, and every branch that exists was added
\* by a notification that found the pipeline alive.
C20_BranchWithinGraphLifetime ==
    /\ \A i \in 1 .. Len(notified) :
          ~notified[i].upgraded =>
              /\ BinsOf(bins, notified[i].pt) = {}
              /\ notified[i].fault = "none"
              /\ \A k \in SunkOf(notified[i].pt) : ~sunk[k].ready
    /\ \A b \in 1 .. Len(bins) :
          \E i \in NotifiedOf(bins[b].pt) : notified[i].upgraded
    /\ panicked => notified[Len(notified)].upgraded
    /\ pipelineAlive => \A i \in 1 .. Len(notified) : notified[i].upgraded

\* C20 witness: main has returned, and a payload type was first seen after
\* that, beside one that has its branch
C20_Witness ==
    /\ ~pipelineAlive
    /\ bins # <<>>
    /\ \E i \in 1 .. Len(notified) :
          /\ ~notified[i].upgraded
          /\ notified[i].caps.encoding_name = H264Name
    /\ ~panicked

====
